---- MODULE Spec2Model ----
(***************************************************************************)
(* Model of src/application.py: a script that connects to PostgreSQL,      *)
(* alters the app_version column, receives every message of an SQS queue,  *)
(* masks device_id and ip with SHA-256, inserts one row per message into   *)
(* user_logins, commits, and deletes the message from the queue.           *)
(*                                                                         *)
(* The script is modelled per pipeline instance (one run of the script is  *)
(* one drain cycle); the queue and the table are shared.                   *)
(***************************************************************************)
EXTENDS Integers, Sequences, FiniteSets, TLC

(***************************************************************************)
(* Bounds                                                                  *)
(***************************************************************************)
NumMsgs == 2          \* messages that may ever be sent to the queue
MaxDeliveries == 2    \* times one message may be handed out by receive_message

\* MaxNumberOfMessages=10 of the receive_message call
MaxNumberOfMessages == 10

Msgs == 1..NumMsgs
Pipelines == {"A", "B"}   \* instances of the script that may exist
Single == {"A"}           \* the instance run by the single-instance specifications

(***************************************************************************)
(* JSON values.  A value is a pair <<type, text>> so that the string "31"  *)
(* and the number 31 are different values.                                 *)
(***************************************************************************)
Null == <<"null", "">>
Str(s) == <<"str", s>>
Num(s) == <<"num", s>>
IsStr(v) == v[1] = "str"

Fields == {"user_id", "device_type", "ip", "device_id", "locale", "app_version"}

\* hashlib.sha256(data.encode()).hexdigest() on the strings used by the model
sha256_hexdigest(s) ==
    CASE s = "1.2.3.4" -> "6694f83c9f476da31f5df6bcc520034e7e57d421d247b9d34f49edbfc84a764c"
      [] s = "d1"      -> "8b53639f152c8fc6ef30802fde462ba0be9cf085f7580dc69efd72e002abbb35"
      [] s = ""        -> "e3b0c44298fc1c149afbf4c8996fb92427ae41e4649b934ca495991b7852b855"

\* mask_pii raises AttributeError when data has no encode() (not a str)
mask_pii_raises(v) == ~IsStr(v)
mask_pii(v) == Str(sha256_hexdigest(v[2]))

(***************************************************************************)
(* Message bodies.  kind "invalid": json.loads raises; kind "array": the   *)
(* body is valid JSON but not an object; kind "object": obj is the parsed  *)
(* mapping, whose domain is the set of keys present.                       *)
(***************************************************************************)
NoObj == [f \in {} |-> Null]
InvalidBody == [kind |-> "invalid", obj |-> NoObj]
ArrayBody == [kind |-> "array", obj |-> NoObj]
ObjectBody(o) == [kind |-> "object", obj |-> o]

FieldValues(f) ==
    CASE f = "user_id"     -> {Str("u1")}
      [] f = "device_type" -> {Str("android")}
      [] f = "locale"      -> {Str("en-US"), Null}
      [] f = "ip"          -> {Str("1.2.3.4"), Str(""), Null}
      [] f = "device_id"   -> {Str("d1"), Str("1.2.3.4"), Num("7")}
      [] f = "app_version" -> {Str("3.1"), Num("31")}

\* every object over every subset of the fields
AllObjects == UNION {{o \in [F -> UNION {FieldValues(f) : f \in Fields}] :
                        \A f \in F : o[f] \in FieldValues(f)} : F \in SUBSET Fields}
AllBodies == {InvalidBody, ArrayBody} \cup {ObjectBody(o) : o \in AllObjects}

FullObject == [f \in Fields |->
    CASE f = "user_id" -> Str("u1") [] f = "device_type" -> Str("android")
      [] f = "locale" -> Str("en-US") [] f = "ip" -> Str("1.2.3.4")
      [] f = "device_id" -> Str("d1") [] f = "app_version" -> Str("3.1")]
PartialObject == [f \in {"user_id", "app_version"} |->
    IF f = "user_id" THEN Str("u1") ELSE Num("31")]
NullIpObject == [f \in {"user_id", "ip"} |-> IF f = "user_id" THEN Str("u1") ELSE Null]

GoodBodies == {ObjectBody(FullObject), ObjectBody(PartialObject)}
CoreBodies == GoodBodies \cup {InvalidBody, ArrayBody, ObjectBody(NullIpObject)}

\* message_body.get(k, None)
Get(o, k) == IF k \in DOMAIN o THEN o[k] ELSE Null

\* json.loads taken to return an empty mapping for a body it cannot parse
BuildErrorLenient(b) ==
    CASE b.kind = "invalid" -> "none"
      [] b.kind = "array" -> "AttributeError"
      [] OTHER ->
           IF "device_id" \in DOMAIN b.obj /\ mask_pii_raises(b.obj["device_id"])
              THEN "AttributeError"
           ELSE IF "ip" \in DOMAIN b.obj /\ mask_pii_raises(b.obj["ip"])
              THEN "AttributeError"
           ELSE "none"

\* the masking of the commented-out lines 88-89: no presence check
BuildErrorUnchecked(b) ==
    CASE b.kind = "invalid" -> "JSONDecodeError"
      [] b.kind = "array" -> "TypeError"
      [] OTHER ->
           IF "device_id" \notin DOMAIN b.obj \/ "ip" \notin DOMAIN b.obj
              THEN "KeyError"
           ELSE IF mask_pii_raises(b.obj["device_id"]) \/ mask_pii_raises(b.obj["ip"])
              THEN "AttributeError"
           ELSE "none"

\* The exception raised by lines 77-92 for a body, "none" when they succeed
BuildError(b) ==
    CASE b.kind = "invalid" -> "JSONDecodeError"
      [] b.kind = "array" -> "AttributeError"
      [] OTHER ->
           IF "device_id" \in DOMAIN b.obj /\ mask_pii_raises(b.obj["device_id"])
              THEN "AttributeError"
           ELSE IF "ip" \in DOMAIN b.obj /\ mask_pii_raises(b.obj["ip"])
              THEN "AttributeError"
           ELSE "none"

\* message_body after lines 80-85
MaskedBody(o) ==
    [f \in DOMAIN o |-> IF f \in {"device_id", "ip"} THEN mask_pii(o[f]) ELSE o[f]]

\* the data tuple with ip and device_id in each other's position
DataOfSwapped(mb) ==
    << Get(mb, "user_id"), Get(mb, "device_type"), Get(mb, "device_id"),
       Get(mb, "ip"), Get(mb, "locale"), Get(mb, "app_version") >>

\* the data tuple of lines 108-116
DataOf(mb) ==
    << Get(mb, "user_id"), Get(mb, "device_type"), Get(mb, "ip"),
       Get(mb, "device_id"), Get(mb, "locale"), Get(mb, "app_version") >>

BuildData(b) == DataOf(MaskedBody(b.obj))

\* insert_query: the column list bound to the positional parameters
\* (handle is not a column: it records which delivery the row was built from)
InsertRow(d, h) ==
    [user_id |-> d[1], device_type |-> d[2], masked_ip |-> d[3],
     masked_device_id |-> d[4], locale |-> d[5], app_version |-> d[6],
     create_date |-> "CURRENT_DATE", handle |-> h]

NoData == <<>>

(***************************************************************************)
(* State                                                                   *)
(***************************************************************************)
VARIABLES
    body,          \* queue: body of each message
    queue,         \* queue: messages sent and not yet deleted
    inflight,      \* queue: messages received and not visible to receive_message
    rcvCount,      \* queue: number of times each message was handed out
    store,         \* table user_logins: the committed rows, in insertion order
    colType,       \* table user_logins: type of column app_version
    pc,            \* per instance: position in the script
    conn,          \* per instance: the names connection / cursor
    messages,      \* per instance: the list messages
    response,      \* per instance: what the last receive_message returned
    idx,           \* per instance: position of the for loop in messages
    data,          \* per instance: the tuple data of the current message
    pending,       \* per instance: rows executed and not yet committed
    err,           \* per instance: the uncaught exception that ended the run
    stdout,        \* per instance: the lines the run has printed
    disturbed,     \* history: a message arrived or reappeared during the run
    deleteIssued,  \* history: receipt handles passed to delete_message
    deleteFailed,  \* history: receipt handles whose delete_message raised
    insertFailed   \* history: receipt handles whose execute or commit raised

qvars == <<body, queue, inflight, rcvCount>>
dbvars == <<store, colType>>
hvars == <<deleteIssued, deleteFailed, insertFailed>>
vars == <<body, queue, inflight, rcvCount, store, colType, pc, conn, messages,
          response, idx, data, pending, err, stdout, disturbed, deleteIssued,
          deleteFailed, insertFailed>>

\* a printed line: the text of the print call and the mapping printed with it
Line(text, o) == [text |-> text, arg |-> o]
\* print(...) by instance i
Emit(i, l) == stdout' = [stdout EXCEPT ![i] = Append(@, l)]

Terminal == {"idle", "done", "crashed"}
Running(i) == pc[i] \notin Terminal

Handle(m, n) == [msg |-> m, n |-> n]
Message(m, n) == [Body |-> body[m], ReceiptHandle |-> Handle(m, n)]

\* the message the for loop is at
Current(i) == messages[i][idx[i]]

\* receipt handles whose row is committed
Committed == {store[k].handle : k \in 1..Len(store)}
\* rows of the table inserted for message m
RowsOf(m) == {k \in 1..Len(store) : store[k].handle.msg = m}

InitCommon ==
    /\ queue = {}
    /\ inflight = {}
    /\ rcvCount = [m \in Msgs |-> 0]
    /\ store = <<>>
    /\ colType = "INTEGER"
    /\ pc = [i \in Pipelines |-> "idle"]
    /\ conn = [i \in Pipelines |-> "undefined"]
    /\ messages = [i \in Pipelines |-> <<>>]
    /\ response = [i \in Pipelines |-> "none"]
    /\ idx = [i \in Pipelines |-> 0]
    /\ data = [i \in Pipelines |-> NoData]
    /\ pending = [i \in Pipelines |-> <<>>]
    /\ err = [i \in Pipelines |-> "none"]
    /\ stdout = [i \in Pipelines |-> <<>>]
    /\ disturbed = [i \in Pipelines |-> FALSE]
    /\ deleteIssued = {}
    /\ deleteFailed = {}
    /\ insertFailed = {}

Init ==
    /\ body \in [Msgs -> CoreBodies]
    /\ InitCommon

(***************************************************************************)
(* The environment: producers and the queue's visibility timeout           *)
(***************************************************************************)
Disturb == [i \in Pipelines |-> disturbed[i] \/ Running(i)]

\* a producer sends message m
Send(m) ==
    /\ m \notin queue
    /\ rcvCount[m] = 0
    /\ queue' = queue \cup {m}
    /\ disturbed' = Disturb
    /\ UNCHANGED <<stdout, body, inflight, rcvCount, dbvars, pc, conn, messages, response,
                   idx, data, pending, err, hvars>>

\* the visibility timeout of a received, undeleted message expires
VisibilityTimeout(m) ==
    /\ m \in inflight
    /\ rcvCount[m] < MaxDeliveries
    /\ inflight' = inflight \ {m}
    /\ disturbed' = Disturb
    /\ UNCHANGED <<stdout, body, queue, rcvCount, dbvars, pc, conn, messages, response,
                   idx, data, pending, err, hvars>>

(***************************************************************************)
(* The script                                                              *)
(***************************************************************************)
\* an uncaught exception e ends the run; an open transaction is rolled back
Raise(i, e) ==
    /\ pc' = [pc EXCEPT ![i] = "crashed"]
    /\ err' = [err EXCEPT ![i] = e]
    /\ pending' = [pending EXCEPT ![i] = <<>>]

\* the script is started (lines 1-28)
Start(i) ==
    /\ pc[i] \in Terminal
    /\ pc' = [pc EXCEPT ![i] = "connect"]
    /\ conn' = [conn EXCEPT ![i] = "undefined"]
    /\ messages' = [messages EXCEPT ![i] = <<>>]
    /\ response' = [response EXCEPT ![i] = "none"]
    /\ idx' = [idx EXCEPT ![i] = 0]
    /\ data' = [data EXCEPT ![i] = NoData]
    /\ pending' = [pending EXCEPT ![i] = <<>>]
    /\ err' = [err EXCEPT ![i] = "none"]
    /\ stdout' = [stdout EXCEPT ![i] = <<>>]
    /\ disturbed' = [disturbed EXCEPT ![i] = FALSE]
    /\ UNCHANGED <<qvars, dbvars, hvars>>

\* psycopg2.connect succeeds: connection and cursor are bound
ConnectOK(i) ==
    /\ pc[i] = "connect"
    /\ conn' = [conn EXCEPT ![i] = "open"]
    /\ pc' = [pc EXCEPT ![i] = "alter"]
    /\ Emit(i, Line("Connected to PostgreSQL database", NoObj))
    /\ UNCHANGED <<qvars, dbvars, messages, response, idx, data, pending, err,
                   disturbed, hvars>>

\* psycopg2.connect raises: the error is printed, the names stay unbound
ConnectFail(i) ==
    /\ pc[i] = "connect"
    /\ pc' = [pc EXCEPT ![i] = "alter"]
    /\ Emit(i, Line("Error while connecting to PostgreSQL:", NoObj))
    /\ UNCHANGED <<qvars, dbvars, conn, messages, response, idx, data, pending,
                   err, disturbed, hvars>>

\* ALTER TABLE ... TYPE VARCHAR executes and commits
AlterOK(i) ==
    /\ pc[i] = "alter"
    /\ conn[i] = "open"
    /\ colType' = "VARCHAR"
    /\ pc' = [pc EXCEPT ![i] = "receive"]
    /\ Emit(i, Line("Column 'app_version' type altered to VARCHAR", NoObj))
    /\ UNCHANGED <<qvars, store, conn, messages, response, idx, data, pending,
                   err, disturbed, hvars>>

\* the ALTER raises (NameError when cursor is unbound): printed, not re-raised
AlterFail(i) ==
    /\ pc[i] = "alter"
    /\ pc' = [pc EXCEPT ![i] = "receive"]
    /\ Emit(i, Line("Error while altering column type:", NoObj))
    /\ UNCHANGED <<qvars, dbvars, conn, messages, response, idx, data, pending,
                   err, disturbed, hvars>>

\* the batches receive_message may return when the messages of V are visible
Batches(V) ==
    LET n == IF Cardinality(V) < MaxNumberOfMessages
                THEN Cardinality(V) ELSE MaxNumberOfMessages
    IN UNION {{s \in [1..k -> V] : \A a, b \in 1..k : a # b => s[a] # s[b]} :
                k \in 1..n}

\* receive_message called once ("if" for "while"): the batch is processed at once
ReceiveSomeThenProcess(i) ==
    /\ pc[i] = "receive"
    /\ \E s \in Batches(queue \ inflight) :
         LET got == {s[k] : k \in 1..Len(s)}
             cnt == [m \in Msgs |-> IF m \in got THEN rcvCount[m] + 1 ELSE rcvCount[m]]
         IN /\ rcvCount' = cnt
            /\ inflight' = inflight \cup got
            /\ messages' = [messages EXCEPT ![i] =
                              @ \o [k \in 1..Len(s) |-> Message(s[k], cnt[s[k]])]]
    /\ response' = [response EXCEPT ![i] = "Messages"]
    /\ pc' = [pc EXCEPT ![i] = "loop"]
    /\ UNCHANGED <<stdout, body, queue, dbvars, conn, idx, data, pending, err,
                   disturbed, hvars>>

\* receive_message returns a batch: messages += response['Messages']
ReceiveSome(i) ==
    /\ pc[i] = "receive"
    /\ \E s \in Batches(queue \ inflight) :
         LET got == {s[k] : k \in 1..Len(s)}
             cnt == [m \in Msgs |-> IF m \in got THEN rcvCount[m] + 1 ELSE rcvCount[m]]
         IN /\ rcvCount' = cnt
            /\ inflight' = inflight \cup got
            /\ messages' = [messages EXCEPT ![i] =
                              @ \o [k \in 1..Len(s) |-> Message(s[k], cnt[s[k]])]]
    /\ response' = [response EXCEPT ![i] = "Messages"]
    /\ UNCHANGED <<stdout, body, queue, dbvars, pc, conn, idx, data, pending, err,
                   disturbed, hvars>>

\* receive_message returns no 'Messages': break
ReceiveEmpty(i) ==
    /\ pc[i] = "receive"
    /\ queue \ inflight = {}
    /\ response' = [response EXCEPT ![i] = "empty"]
    /\ pc' = [pc EXCEPT ![i] = "loop"]
    /\ UNCHANGED <<stdout, qvars, dbvars, conn, messages, idx, data, pending, err,
                   disturbed, hvars>>

\* receive_message raises (queue unreachable)
ReceiveFail(i) ==
    /\ pc[i] = "receive"
    /\ Raise(i, "ClientError")
    /\ UNCHANGED <<stdout, qvars, dbvars, conn, messages, response, idx, data, disturbed,
                   hvars>>

\* the loop stopping one message early
LoopNextSkipLast(i) ==
    /\ pc[i] = "loop"
    /\ IF idx[i] + 1 < Len(messages[i])
          THEN /\ idx' = [idx EXCEPT ![i] = @ + 1]
               /\ pc' = [pc EXCEPT ![i] = "build"]
          ELSE /\ pc' = [pc EXCEPT ![i] = "close"]
               /\ idx' = idx
    /\ UNCHANGED <<stdout, qvars, dbvars, conn, messages, response, data, pending, err,
                   disturbed, hvars>>

\* for message in messages: next message, or leave the loop
LoopNext(i) ==
    /\ pc[i] = "loop"
    /\ IF idx[i] < Len(messages[i])
          THEN /\ idx' = [idx EXCEPT ![i] = @ + 1]
               /\ pc' = [pc EXCEPT ![i] = "build"]
          ELSE /\ pc' = [pc EXCEPT ![i] = "close"]
               /\ idx' = idx
    /\ UNCHANGED <<stdout, qvars, dbvars, conn, messages, response, data, pending, err,
                   disturbed, hvars>>

\* lines 77-116: parse the body, mask device_id and ip, build data
Build(i) ==
    /\ pc[i] = "build"
    /\ LET b == Current(i).Body
       IN IF BuildError(b) = "none"
             THEN /\ data' = [data EXCEPT ![i] = BuildData(b)]
                  /\ pc' = [pc EXCEPT ![i] = "execute"]
                  /\ Emit(i, Line("Masked message:", MaskedBody(b.obj)))
                  /\ UNCHANGED <<pending, err>>
             ELSE /\ Raise(i, BuildError(b))
                  /\ UNCHANGED <<data, stdout>>
    /\ UNCHANGED <<qvars, dbvars, conn, messages, response, idx, disturbed, hvars>>

\* cursor.execute(insert_query, data) succeeds: the row is in the open transaction
ExecuteOK(i) ==
    /\ pc[i] = "execute"
    /\ conn[i] = "open"
    /\ pending' = [pending EXCEPT ![i] = <<InsertRow(data[i], Current(i).ReceiptHandle)>>]
    /\ pc' = [pc EXCEPT ![i] = "commit"]
    /\ UNCHANGED <<stdout, qvars, dbvars, conn, messages, response, idx, data, err,
                   disturbed, hvars>>

\* a failed execute caught and logged, the loop body carrying on to delete_message
ExecuteFailCaught(i) ==
    /\ pc[i] = "execute"
    /\ insertFailed' = insertFailed \cup {Current(i).ReceiptHandle}
    /\ pc' = [pc EXCEPT ![i] = "delete"]
    /\ UNCHANGED <<stdout, qvars, dbvars, conn, messages, response, idx, data, pending,
                   err, disturbed, deleteIssued, deleteFailed>>

\* cursor.execute raises: NameError when cursor is unbound, else psycopg2.Error
ExecuteFail(i) ==
    /\ pc[i] = "execute"
    /\ Raise(i, IF conn[i] = "open" THEN "psycopg2.Error" ELSE "NameError")
    /\ insertFailed' = insertFailed \cup {Current(i).ReceiptHandle}
    /\ UNCHANGED <<stdout, qvars, dbvars, conn, messages, response, idx, data, disturbed,
                   deleteIssued, deleteFailed>>

\* connection.commit() succeeds: the row is in the table
CommitOK(i) ==
    /\ pc[i] = "commit"
    /\ store' = store \o pending[i]
    /\ pending' = [pending EXCEPT ![i] = <<>>]
    /\ pc' = [pc EXCEPT ![i] = "delete"]
    /\ UNCHANGED <<stdout, qvars, colType, conn, messages, response, idx, data, err,
                   disturbed, hvars>>

\* connection.commit() raises: the transaction is lost
CommitFail(i) ==
    /\ pc[i] = "commit"
    /\ Raise(i, "psycopg2.Error")
    /\ insertFailed' = insertFailed \cup {Current(i).ReceiptHandle}
    /\ UNCHANGED <<stdout, qvars, dbvars, conn, messages, response, idx, data, disturbed,
                   deleteIssued, deleteFailed>>

\* a receipt handle is stale once the message was handed out again
Stale(h) == h.n < rcvCount[h.msg]

\* delete_message succeeds.  With the latest receipt handle the message leaves
\* the queue; with a stale one the queue may keep it.
DeleteOK(i) ==
    /\ pc[i] = "delete"
    /\ LET h == Current(i).ReceiptHandle
       IN /\ deleteIssued' = deleteIssued \cup {h}
          /\ \/ /\ queue' = queue \ {h.msg}
                /\ inflight' = inflight \ {h.msg}
             \/ /\ Stale(h)
                /\ UNCHANGED <<queue, inflight>>
    /\ pc' = [pc EXCEPT ![i] = "loop"]
    /\ UNCHANGED <<stdout, body, rcvCount, dbvars, conn, messages, response, idx, data,
                   pending, err, disturbed, deleteFailed, insertFailed>>

\* a failed delete_message answered by running the insert of the message again
DeleteFailRetry(i) ==
    /\ pc[i] = "delete"
    /\ deleteIssued' = deleteIssued \cup {Current(i).ReceiptHandle}
    /\ deleteFailed' = deleteFailed \cup {Current(i).ReceiptHandle}
    /\ pc' = [pc EXCEPT ![i] = "execute"]
    /\ UNCHANGED <<stdout, qvars, dbvars, conn, messages, response, idx, data,
                   pending, err, disturbed, insertFailed>>

\* a failed delete_message caught and logged, the loop going on to the next message
DeleteFailCaught(i) ==
    /\ pc[i] = "delete"
    /\ deleteIssued' = deleteIssued \cup {Current(i).ReceiptHandle}
    /\ deleteFailed' = deleteFailed \cup {Current(i).ReceiptHandle}
    /\ pc' = [pc EXCEPT ![i] = "loop"]
    /\ UNCHANGED <<stdout, qvars, dbvars, conn, messages, response, idx, data,
                   pending, err, disturbed, insertFailed>>

\* delete_message raises
DeleteFail(i) ==
    /\ pc[i] = "delete"
    /\ Raise(i, "ClientError")
    /\ deleteIssued' = deleteIssued \cup {Current(i).ReceiptHandle}
    /\ deleteFailed' = deleteFailed \cup {Current(i).ReceiptHandle}
    /\ UNCHANGED <<stdout, qvars, dbvars, conn, messages, response, idx, data, disturbed,
                   insertFailed>>

\* the closing lines guarded against an unbound connection
CloseIfBound(i) ==
    /\ pc[i] = "close"
    /\ conn' = [conn EXCEPT ![i] = IF @ = "open" THEN "closed" ELSE @]
    /\ pc' = [pc EXCEPT ![i] = "done"]
    /\ stdout' = [stdout EXCEPT ![i] =
                    IF conn[i] = "open"
                       THEN Append(@, Line("PostgreSQL connection is closed", NoObj))
                       ELSE @]
    /\ UNCHANGED <<qvars, dbvars, messages, response, idx, data, pending, err,
                   disturbed, hvars>>

\* lines 124-128: "if connection:" raises NameError when connection is unbound
Close(i) ==
    /\ pc[i] = "close"
    /\ IF conn[i] = "open"
          THEN /\ conn' = [conn EXCEPT ![i] = "closed"]
               /\ pc' = [pc EXCEPT ![i] = "done"]
               /\ Emit(i, Line("PostgreSQL connection is closed", NoObj))
               /\ UNCHANGED <<pending, err>>
          ELSE /\ Raise(i, "NameError")
               /\ UNCHANGED <<conn, stdout>>
    /\ UNCHANGED <<qvars, dbvars, messages, response, idx, data, disturbed, hvars>>

\* the process is interrupted or killed (KeyboardInterrupt, SIGTERM, crash)
Interrupt(i) ==
    /\ Running(i)
    /\ Raise(i, "KeyboardInterrupt")
    /\ UNCHANGED <<stdout, qvars, dbvars, conn, messages, response, idx, data, disturbed,
                   hvars>>

(***************************************************************************)
(* Specifications                                                          *)
(***************************************************************************)
Step(i) ==
    \/ Start(i)
    \/ ConnectOK(i)
    \/ ConnectFail(i)
    \/ AlterOK(i)
    \/ AlterFail(i)
    \/ ReceiveSome(i)
    \/ ReceiveEmpty(i)
    \/ ReceiveFail(i)
    \/ LoopNext(i)
    \/ Build(i)
    \/ ExecuteOK(i)
    \/ ExecuteFail(i)
    \/ CommitOK(i)
    \/ CommitFail(i)
    \/ DeleteOK(i)
    \/ DeleteFail(i)
    \/ Close(i)
    \/ Interrupt(i)

Env ==
    \/ \E m \in Msgs : Send(m)
    \/ \E m \in Msgs : VisibilityTimeout(m)

\* one instance of the script, run any number of times
Next ==
    \/ \E i \in Single : Step(i)
    \/ Env

Spec == Init /\ [][Next]_vars

\* a run in which nothing fails: the queue holds its messages at the start,
\* every body is well formed, every call succeeds, nothing arrives
InitDrain ==
    /\ body \in [Msgs -> GoodBodies]
    /\ InitCommon

StepDrain(i) ==
    \/ Start(i)
    \/ ConnectOK(i)
    \/ AlterOK(i)
    \/ ReceiveSome(i)
    \/ ReceiveEmpty(i)
    \/ LoopNext(i)
    \/ Build(i)
    \/ ExecuteOK(i)
    \/ CommitOK(i)
    \/ DeleteOK(i)
    \/ Close(i)

\* producers send only while the script is not running
SendBefore(m) == (\A i \in Pipelines : pc[i] = "idle") /\ Send(m)

NextDrain ==
    \/ \E i \in Single : StepDrain(i)
    \/ \E m \in Msgs : SendBefore(m)

\* the script, once started, keeps taking steps
SpecDrain == InitDrain /\ [][NextDrain]_vars /\ WF_vars(\E i \in Single : StepDrain(i))

\* one message with any body, one instance, no producer
InitRecord ==
    /\ body \in {b \in [Msgs -> AllBodies] : \A m \in Msgs \ {1} : b[m] = InvalidBody}
    /\ InitCommon

NextRecord ==
    \/ \E i \in Single : Step(i)
    \/ Send(1)

SpecRecord == InitRecord /\ [][NextRecord]_vars

(***************************************************************************)
(* Properties                                                              *)
(***************************************************************************)
\* receipt handles of the messages instance i received in its current run
HandlesOf(i) == {messages[i][k].ReceiptHandle : k \in 1..Len(messages[i])}
\* message m was sent to the queue at some time
Sent(m) == m \in queue \/ rcvCount[m] > 0
\* message m was sent and is no longer in the queue
Deleted(m) == Sent(m) /\ m \notin queue
\* exceptions raised by the processing of one message
MessageErrors == {"JSONDecodeError", "AttributeError", "psycopg2.Error", "ClientError"}
\* positions of the script after the receive loop
Processing == {"loop", "build", "execute", "commit", "delete", "close", "done"}

\* C1: delete_message is issued for a receipt handle only after the row built
\* from that delivery was committed in the same run; a delivery whose insert
\* failed never has delete_message issued; a message that left the queue has a row.
C1_DeleteOnlyAfterInsert ==
    /\ \A h \in deleteIssued : h \in Committed
    /\ insertFailed \cap deleteIssued = {}
    /\ \A m \in Msgs : Deleted(m) => RowsOf(m) # {}

\* C1 witness: one delivery was inserted and deleted, another failed to insert
C1_Witness ==
    /\ \E h \in deleteIssued : h \in Committed /\ h.msg \notin queue
    /\ \E h \in insertFailed : h.msg \in queue

\* C2 (as claimed): when the processing of message k fails, every received
\* message whose own parse, insert and delete do not fail is inserted and deleted
\* by the end of the run.
C2_FailureDoesNotStopCycle ==
    \A i \in Pipelines :
        (pc[i] = "crashed" /\ idx[i] >= 1 /\ err[i] \in MessageErrors) =>
            \A k \in 1..Len(messages[i]) :
                LET msg == messages[i][k]
                IN (/\ BuildError(msg.Body) = "none"
                    /\ msg.ReceiptHandle \notin insertFailed \cup deleteFailed)
                   => (/\ msg.ReceiptHandle \in Committed
                       /\ msg.ReceiptHandle \in deleteIssued)

\* C3: a message whose body json.loads cannot parse never has a row in the
\* table, executed or committed, is never passed to delete_message and, once
\* sent, stays in the queue.
C3_UnparseableRetained ==
    \A m \in Msgs : body[m].kind = "invalid" =>
        /\ RowsOf(m) = {}
        /\ \A i \in Pipelines : \A k \in 1..Len(pending[i]) : pending[i][k].handle.msg # m
        /\ \A h \in deleteIssued : h.msg # m
        /\ Sent(m) => m \in queue

\* C3 witness: a run reached an unparseable body and ended on it
C3_Witness ==
    \E i \in Pipelines :
        /\ pc[i] = "crashed"
        /\ err[i] = "JSONDecodeError"
        /\ idx[i] >= 1
        /\ Current(i).Body.kind = "invalid"
        /\ Current(i).ReceiptHandle.msg \in queue

\* C4 (as claimed): a message inserted twice, after the delete of its first
\* delivery failed and it was delivered again, has exactly one row in the table.
C4_RedeliveryOneRow ==
    \A m \in Msgs :
        (\E h1, h2 \in Committed :
            /\ h1.msg = m /\ h2.msg = m /\ h1.n < h2.n
            /\ h1 \in deleteFailed)
        => Cardinality(RowsOf(m)) = 1

\* C5: with nothing failing and nothing arriving, a started run terminates;
\* the receive loop is left exactly when receive_message returned no messages;
\* at termination the queue is empty and every message sent was handed out
\* once and has exactly one row.
C5_DrainTerminates ==
    /\ \A i \in Single : Running(i) ~> (pc[i] = "done")
    /\ [](\A i \in Single : response[i] = "empty" <=> pc[i] \in Processing)
    /\ [](\A i \in Single : pc[i] = "done" =>
            /\ queue = {}
            /\ \A m \in Msgs : Sent(m) =>
                 /\ Cardinality(RowsOf(m)) = 1
                 /\ rcvCount[m] = 1
                 /\ Handle(m, 1) \in deleteIssued)

\* C5 witness: a run over a queue of two messages has terminated
C5_Witness ==
    \E i \in Single :
        /\ pc[i] = "done"
        /\ Len(messages[i]) >= 2
        /\ Len(store) >= 2
        /\ queue = {}

\* the row of the table, executed or committed, and the body it was built from
Rows == {store[k] : k \in 1..Len(store)}
         \cup UNION {{pending[i][k] : k \in 1..Len(pending[i])} : i \in Pipelines}
ObjOf(r) == body[r.handle.msg].obj
\* a body with the expected shape: an object whose ip and device_id, if present, are strings
WellShaped(b) ==
    /\ b.kind = "object"
    /\ \A f \in {"ip", "device_id"} \cap DOMAIN b.obj : IsStr(b.obj[f])

\* C6: every field absent from the body is null in the row; the data tuple
\* always has six values; an absent field raises nothing (a well-shaped body
\* always reaches the insert).
C6_AbsentFieldsNull ==
    /\ \A r \in Rows :
         /\ "user_id" \notin DOMAIN ObjOf(r) => r.user_id = Null
         /\ "device_type" \notin DOMAIN ObjOf(r) => r.device_type = Null
         /\ "ip" \notin DOMAIN ObjOf(r) => r.masked_ip = Null
         /\ "device_id" \notin DOMAIN ObjOf(r) => r.masked_device_id = Null
         /\ "locale" \notin DOMAIN ObjOf(r) => r.locale = Null
         /\ "app_version" \notin DOMAIN ObjOf(r) => r.app_version = Null
    /\ \A i \in Pipelines :
         /\ pc[i] \in {"execute", "commit", "delete"} => Len(data[i]) = 6
         /\ (pc[i] = "crashed" /\ idx[i] >= 1 /\ WellShaped(Current(i).Body))
               => err[i] \in {"psycopg2.Error", "NameError", "ClientError",
                              "KeyboardInterrupt"}

\* C6 witness: a committed row built from a body without ip and device_id
C6_Witness ==
    \E k \in 1..Len(store) :
        /\ DOMAIN ObjOf(store[k]) \cap {"ip", "device_id", "locale"} = {}
        /\ "user_id" \in DOMAIN ObjOf(store[k])
        /\ store[k].masked_ip = Null
        /\ store[k].masked_device_id = Null

C8_InterruptLeavesNoHalfDone ==
    \A i \in Pipelines :
        (pc[i] = "crashed" /\ err[i] = "KeyboardInterrupt") =>
            \A h \in HandlesOf(i) :
                /\ h.msg \notin queue => RowsOf(h.msg) # {}
                /\ h \in Committed => h.msg \notin queue

\* C9 (as claimed): whenever the script is about to call receive_message, every
\* message received so far has been processed.
C9_PollAfterBatchProcessed ==
    \A i \in Pipelines :
        pc[i] = "receive" => \A k \in 1..Len(messages[i]) : k <= idx[i]

\* C9 (amended): the script receives until receive_message returns no messages
\* and only then processes: while it receives, no received message has been
\* inserted or passed to delete_message, and the for loop runs only after the
\* empty response, so no receive follows the processing of a message.
C9_ReceiveAllThenProcess ==
    \A i \in Pipelines :
        /\ pc[i] = "receive" =>
              /\ idx[i] = 0
              /\ HandlesOf(i) \cap (Committed \cup deleteIssued \cup insertFailed) = {}
        /\ pc[i] \in Processing => response[i] = "empty"
        /\ idx[i] >= 1 => response[i] = "empty"

\* C9 witness: a batch was received, none of it processed, and the next
\* receive_message will return more
C9_Witness ==
    \E i \in Pipelines :
        /\ pc[i] = "receive"
        /\ Len(messages[i]) >= 1
        /\ queue \ inflight # {}

\* C10: a run whose connection failed deletes nothing and never ends normally;
\* a run whose insert failed ends on that message with the error raised; no
\* receipt handle is passed to delete_message without its row committed.
C10_StoreUnreachable ==
    \A i \in Pipelines :
        /\ (pc[i] \notin {"idle", "connect"} /\ conn[i] = "undefined") =>
              /\ HandlesOf(i) \cap deleteIssued = {}
              /\ pc[i] # "done"
              /\ \A h \in HandlesOf(i) : h.msg \in queue
        /\ \A k \in 1..Len(messages[i]) :
              messages[i][k].ReceiptHandle \in insertFailed =>
                 /\ pc[i] = "crashed"
                 /\ idx[i] = k
                 /\ err[i] \in {"psycopg2.Error", "NameError"}
        /\ \A h \in HandlesOf(i) : h \in deleteIssued => h \in Committed

\* C10 witness: the connection failed, messages were received, and the run
\* ended with the NameError of the first execute
C10_Witness ==
    \E i \in Pipelines :
        /\ pc[i] = "crashed"
        /\ conn[i] = "undefined"
        /\ err[i] = "NameError"
        /\ idx[i] = 1
        /\ Len(messages[i]) >= 2

\* positions of messages[i] whose row is committed and whose delete succeeded
ProcessedOf(i) ==
    {k \in 1..Len(messages[i]) :
        /\ messages[i][k].ReceiptHandle \in Committed
        /\ messages[i][k].ReceiptHandle \in deleteIssued \ deleteFailed}

\* C11 (as claimed): a run that has ended has printed the counts processed,
\* skipped-malformed, failed-persist and failed-ack; they add up to the number
\* of messages received and processed is the number inserted and deleted.
C11_CycleReportsCounts ==
    LET ReportKeys == {"processed", "skipped-malformed", "failed-persist", "failed-ack"}
        ReportLine(c) == [f \in ReportKeys |-> Num(ToString(c[f]))]
    IN \A i \in Pipelines :
        pc[i] = "done" =>
            \E k \in 1..Len(stdout[i]) :
                \E c \in [ReportKeys -> 0..Len(messages[i])] :
                    /\ stdout[i][k].arg = ReportLine(c)
                    /\ c["processed"] + c["skipped-malformed"] + c["failed-persist"]
                         + c["failed-ack"] = Len(messages[i])
                    /\ c["processed"] = Cardinality(ProcessedOf(i))

\* C12 (as claimed): a message whose body parses but is not an object with
\* string ip and device_id is retained and gets no row, and the run goes on:
\* every well-shaped message received after it is inserted or fails to insert.
C12_IllShapedHandledAsMalformed ==
    \A i \in Pipelines :
        (pc[i] = "crashed" /\ err[i] = "AttributeError") =>
            \A k \in 1..idx[i] :
                LET msg == messages[i][k]
                IN (msg.Body.kind # "invalid" /\ ~WellShaped(msg.Body)) =>
                      /\ msg.ReceiptHandle.msg \in queue
                      /\ msg.ReceiptHandle \notin Committed \cup deleteIssued
                      /\ \A j \in (k + 1)..Len(messages[i]) :
                            WellShaped(messages[i][j].Body) =>
                               messages[i][j].ReceiptHandle \in Committed \cup insertFailed

\* rows of the table built from the delivery with receipt handle h
RowsFrom(h) == {k \in 1..Len(store) : store[k].handle = h}
\* receipt handles whose delete_message succeeded
DeleteDone == deleteIssued \ deleteFailed

\* C13: a delivery whose delete_message failed keeps its one committed row;
\* its insert is not run again, nor is an insert run for a later delivery of
\* the same message in that run; unless a delete of another delivery of the
\* message succeeded, the message is still in the queue.
C13_DeleteFailureKeepsRecord ==
    \A h \in deleteFailed :
        /\ Cardinality(RowsFrom(h)) = 1
        /\ h \notin insertFailed
        /\ \A i \in Pipelines :
              /\ \A k \in 1..Len(pending[i]) : pending[i][k].handle # h
              /\ \A k \in 1..Len(messages[i]) : messages[i][k].ReceiptHandle = h =>
                    \A j \in (k + 1)..Len(messages[i]) :
                        messages[i][j].ReceiptHandle.msg = h.msg =>
                           /\ messages[i][j].ReceiptHandle \notin Committed \cup insertFailed
                           /\ idx[i] < j
        /\ (\A g \in DeleteDone : g.msg # h.msg) => h.msg \in queue

\* C13 witness: the delete of a committed delivery failed, the run has ended
\* and the message is in the queue
C13_Witness ==
    \E i \in Pipelines :
        /\ pc[i] = "crashed"
        /\ err[i] = "ClientError"
        /\ idx[i] >= 1
        /\ Current(i).ReceiptHandle \in deleteFailed \cap Committed
        /\ Current(i).ReceiptHandle.msg \in queue

\* positions of messages[i] whose delete_message succeeded / whose row is committed
DeletedPos(i) == {k \in 1..Len(messages[i]) : messages[i][k].ReceiptHandle \in DeleteDone}
CommittedPos(i) == {k \in 1..Len(messages[i]) : messages[i][k].ReceiptHandle \in Committed}

\* C14: in every state the deleted messages of a run are a prefix of its
\* received list and the messages with a committed row are that prefix or that
\* prefix and the next message.
C14_SequentialPrefix ==
    \A i \in Pipelines :
        \E j \in 0..Len(messages[i]) :
            /\ DeletedPos(i) = 1..j
            /\ CommittedPos(i) = 1..j \/ CommittedPos(i) = 1..(j + 1)

\* C14 witness: the first message is inserted and deleted, the second inserted
\* and not yet deleted
C14_Witness ==
    \E i \in Pipelines :
        /\ Len(messages[i]) >= 2
        /\ DeletedPos(i) = {1}
        /\ CommittedPos(i) = {1, 2}

\* two instances of the script on one queue, every call succeeding; a received
\* message may become visible again and be received by the other instance
NextConc ==
    \/ \E i \in Pipelines : StepDrain(i)
    \/ \E m \in Msgs : Send(m)
    \/ \E m \in Msgs : VisibilityTimeout(m)

SpecConc == InitDrain /\ [][NextConc]_vars

\* C15 (as claimed): when both instances have ended, every message that was
\* received by one instance, became visible again and was received by the
\* other has exactly one row in the table.
C15_ConcurrentOneRecord ==
    (\A i \in Pipelines : pc[i] = "done") =>
        \A m \in Msgs :
            (\A i \in Pipelines : \E h \in HandlesOf(i) : h.msg = m)
                => Cardinality(RowsOf(m)) = 1

\* C16 (as claimed): within one run, the deliveries of one message give rise
\* to at most one insert.
C16_OneInsertPerMessagePerCycle ==
    \A i \in Pipelines : \A m \in Msgs :
        Cardinality({h \in HandlesOf(i) :
                        /\ h.msg = m
                        /\ (h \in Committed \cup insertFailed
                            \/ \E k \in 1..Len(pending[i]) : pending[i][k].handle = h)}) <= 1
====
